---- MODULE Spec2Model ----
(***************************************************************************)
(* The users table of the admin dashboard (UserManagementTable in          *)
(* src/src/components/UsersTable.tsx): the React state of the component,   *)
(* its derived view (tab filter -> search -> sort -> page slice), its      *)
(* handlers, its CSV export, and the requests it has in flight (the list   *)
(* GET of the mount effect and of the refresh button, the PATCH of the row *)
(* actions); and the inspections panel (AdminInspectionsPanel in           *)
(* src/src/components/AdminInspectionsPanel.tsx), whose list the server    *)
(* filters, sorts and pages; the route guard of the protected routes       *)
(* (MainLayout in src/src/layouts/MainLayout.tsx), with the sign-out it    *)
(* has in flight; and the superadmin checker (SuperadminChecker in         *)
(* src/unnamed/part_000), with its token and fetch requests.               *)
(*                                                                         *)
(* A JavaScript value is a tagged record, so that the comparator's         *)
(* `== null` and `typeof` tests are computed as the code computes them.    *)
(* A JavaScript string is a sequence of one-character strings.             *)
(***************************************************************************)
EXTENDS Integers, Sequences, FiniteSets, TLC

\* ------------------------------------------------------------------ bounds
\* Loads issued over a run, the load of the mount effect included.
MaxLoads == 2
\* Row actions (toggle active, reset monthly) issued over a run.
MaxMutations == 2
\* Page sizes 1..MaxPageSize are offered beside the default page size.
MaxPageSize == 2
\* The longest cell value handed to the CSV export, the spec's example aside.
MaxCellLen == 4
\* Calls of fetchAll over a run of the inspections panel, the two of its
\* mount effects included.
MaxPanelLoads == 5
\* The number of calls of signOut the route guard makes in a behaviour.
MaxSignOuts == 2
\* The pageSize prop of the inspections panel.
PanelPageSize == 2

\* ------------------------------------------------------- JavaScript values
NULL == [t |-> "null"]
Str(s) == [t |-> "str", v |-> s]
Num(n) == [t |-> "num", v |-> n]
Bool(b) == [t |-> "bool", v |-> b]

IsNullish(x) == x.t = "null"

\* JavaScript truthiness of a value: null, false, 0 and "" are falsy.
Truthy(x) ==
    CASE x.t = "null" -> FALSE
      [] x.t = "bool" -> x.v
      [] x.t = "num" -> x.v # 0
      [] x.t = "str" -> x.v # <<>>

\* x ?? d
Coalesce(x, d) == IF IsNullish(x) THEN d ELSE x

\* ------------------------------------------------------------------ strings
Digits == <<"0", "1", "2", "3", "4", "5", "6", "7", "8", "9">>

IsDigit(c) == \E i \in 1..10 : Digits[i] = c

DigitVal(c) == (CHOOSE i \in 1..10 : Digits[i] = c) - 1

\* String.prototype.toLowerCase, one character.
LowerChar(c) ==
    CASE c = "A" -> "a"
      [] c = "B" -> "b"
      [] c = "K" -> "k"
      [] c = "N" -> "n"
      [] c = "O" -> "o"
      [] OTHER -> c

toLowerCase(s) == [i \in 1..Len(s) |-> LowerChar(s[i])]

\* String.prototype.trim: leading and trailing blanks removed.
RECURSIVE TrimLeft(_)
TrimLeft(s) == IF s # <<>> /\ Head(s) = " " THEN TrimLeft(Tail(s)) ELSE s

RECURSIVE TrimRight(_)
TrimRight(s) ==
    IF s # <<>> /\ s[Len(s)] = " " THEN TrimRight(SubSeq(s, 1, Len(s) - 1)) ELSE s

trim(s) == TrimRight(TrimLeft(s))

\* String.prototype.includes
includes(s, q) ==
    \E i \in 0..(Len(s) - Len(q)) : SubSeq(s, i + 1, i + Len(q)) = q

\* Collation rank of a character (blank, digits, then letters).
CharOrder == <<" ", "0", "1", "2", "3", "4", "5", "6", "7", "8", "9",
               "a", "A", "b", "B", "k", "K", "n", "N", "o", "O">>

Rank(c) == CHOOSE i \in 1..Len(CharOrder) : CharOrder[i] = c

Sign(n) == IF n < 0 THEN -1 ELSE IF n > 0 THEN 1 ELSE 0

\* a.localeCompare(b), as a sign.
RECURSIVE localeCompare(_, _)
localeCompare(a, b) ==
    IF a = <<>> /\ b = <<>> THEN 0
    ELSE IF a = <<>> THEN -1
    ELSE IF b = <<>> THEN 1
    ELSE IF Head(a) # Head(b) THEN Sign(Rank(Head(a)) - Rank(Head(b)))
    ELSE localeCompare(Tail(a), Tail(b))

\* Date.parse of the strings the model carries: a four-digit year is a valid
\* date-only form and parses to the instant its year starts at (the year
\* stands for the instant); every other string of the model gives NaN.
NaN == -1

RECURSIVE DigitsVal(_)
DigitsVal(s) ==
    IF s = <<>> THEN 0 ELSE DigitsVal(SubSeq(s, 1, Len(s) - 1)) * 10 + DigitVal(s[Len(s)])

DateParse(s) ==
    IF Len(s) = 4 /\ \A i \in 1..4 : IsDigit(s[i]) THEN DigitsVal(s) ELSE NaN

\* String(v)
NumStr(n) == IF n < 10 THEN <<Digits[n + 1]>> ELSE <<Digits[(n \div 10) + 1], Digits[(n % 10) + 1]>>

String(x) ==
    CASE x.t = "str" -> x.v
      [] x.t = "num" -> NumStr(x.v)
      [] x.t = "bool" -> IF x.v THEN <<"t", "r", "u", "e">> ELSE <<"f", "a", "l", "s", "e">>
      [] x.t = "null" -> <<"n", "u", "l", "l">>

\* --------------------------------------------------------------- CSV cells
Quote == "\""
Comma == ","

RECURSIVE replaceAll_First(_, _, _)
replaceAll_First(s, c, r) ==
    IF s = <<>> THEN <<>>
    ELSE IF Head(s) = c THEN r \o Tail(s)
    ELSE <<Head(s)>> \o replaceAll_First(Tail(s), c, r)

\* String.prototype.replaceAll(c, r) for a one-character pattern c.
RECURSIVE replaceAll(_, _, _)
replaceAll(s, c, r) ==
    IF s = <<>> THEN <<>>
    ELSE (IF Head(s) = c THEN r ELSE <<Head(s)>>) \o replaceAll(Tail(s), c, r)

\* The two maps toCsv applies to a cell (UsersTable.tsx): the quotes are
\* doubled, then a value that includes a comma is put in quotes.
toCsvCell(v) ==
    LET d == replaceAll(v, Quote, <<Quote, Quote>>)
    IN  IF includes(d, <<Comma>>) THEN <<Quote>> \o d \o <<Quote>> ELSE d

\* The map onExportCSV applies to a cell (AdminInspectionsPanel.tsx): the
\* quotes are doubled and every value is put in quotes.
onExportCSVCell(v) == <<Quote>> \o replaceAll(v, Quote, <<Quote, Quote>>) \o <<Quote>>

\* ------------------------------------------------------------ the exports
Newline == "\n"

\* Array.prototype.join
RECURSIVE Join(_, _)
Join(parts, sep) ==
    IF parts = <<>> THEN <<>>
    ELSE IF Len(parts) = 1 THEN parts[1]
    ELSE parts[1] \o sep \o Join(Tail(parts), sep)

\* The characters of a record id.
IdChars(id) ==
    CASE id = "u1" -> <<"u", "1">>
      [] id = "u2" -> <<"u", "2">>
      [] id = "u3" -> <<"u", "3">>
      [] id = "i1" -> <<"i", "1">>
      [] id = "i2" -> <<"i", "2">>
      [] id = "i3" -> <<"i", "3">>

\* headers.join(",") of toCsv
UsersCsvHeader == <<"i", "d", Comma, "c", "l", "e", "r", "k", "U", "s", "e", "r", "I",
                    "d", Comma, "e", "m", "a", "i", "l", Comma, "f", "i", "r", "s",
                    "t", "N", "a", "m", "e", Comma, "l", "a", "s", "t", "N", "a", "m",
                    "e", Comma, "i", "n", "s", "p", "e", "c", "t", "i", "o", "n", "C",
                    "o", "u", "n", "t", Comma, "m", "o", "n", "t", "h", "l", "y", "I",
                    "n", "s", "p", "e", "c", "t", "i", "o", "n", "C", "o", "u", "n",
                    "t", Comma, "l", "a", "s", "t", "R", "e", "s", "e", "t", "D", "a",
                    "t", "e", Comma, "i", "s", "A", "c", "t", "i", "v", "e", Comma,
                    "c", "r", "e", "a", "t", "e", "d", "A", "t", Comma, "u", "p", "d",
                    "a", "t", "e", "d", "A", "t">>

\* The cells toCsv makes of a user, before the two maps.
UsersCsvCells(r) ==
    <<IdChars(r.id),
      String(r.clerkUserId),
      String(r.email),
      String(Coalesce(r.firstName, Str(<<>>))),
      String(Coalesce(r.lastName, Str(<<>>))),
      String(Coalesce(r.inspectionCount, Num(0))),
      String(Coalesce(r.monthlyInspectionCount, Num(0))),
      String(Coalesce(r.lastResetDate, Str(<<>>))),
      String(Bool(Truthy(r.isActive))),
      String(Coalesce(r.createdAt, Str(<<>>))),
      String(Coalesce(r.updatedAt, Str(<<>>)))>>

UsersCsvLine(r) ==
    Join([i \in 1..Len(UsersCsvCells(r)) |-> toCsvCell(UsersCsvCells(r)[i])], <<Comma>>)

\* toCsv: the header line and one line per record, joined by newlines.
toCsv(rs) ==
    Join(<<UsersCsvHeader>> \o [i \in 1..Len(rs) |-> UsersCsvLine(rs[i])], <<Newline>>)

\* headers.join(",") of onExportCSV
PanelCsvHeader == <<"i", "d", Comma, "c", "r", "e", "a", "t", "e", "d", "A", "t",
                    Comma, "u", "s", "e", "r", "E", "m", "a", "i", "l", Comma, "u",
                    "s", "e", "r", "I", "d", Comma, "h", "a", "z", "a", "r", "d", "C",
                    "o", "u", "n", "t", Comma, "r", "i", "s", "k", "S", "c", "o", "r",
                    "e", Comma, "s", "a", "f", "e", "t", "y", "G", "r", "a", "d", "e",
                    Comma, "p", "r", "o", "c", "e", "s", "s", "i", "n", "g", "S", "t",
                    "a", "t", "u", "s">>

\* new Date(s).toISOString() of a date the model carries (a year).
IsoTail == <<"-", "0", "1", "-", "0", "1", "T", "0", "0", ":", "0", "0", ":", "0", "0",
             ".", "0", "0", "0", "Z">>

toISOString(s) == s \o IsoTail

\* The cells onExportCSV makes of an inspection, before the map.
PanelCsvCells(r) ==
    <<IdChars(r.id),
      toISOString(r.createdAt.v),
      String(Coalesce(r.userEmail, Str(<<>>))),
      String(r.userId),
      String(Coalesce(r.hazardCount, Str(<<>>))),
      String(Coalesce(r.riskScore, Str(<<>>))),
      String(Coalesce(r.safetyGrade, Str(<<>>))),
      String(r.processingStatus)>>

PanelCsvLine(r) ==
    Join([i \in 1..Len(PanelCsvCells(r)) |-> onExportCSVCell(PanelCsvCells(r)[i])], <<Comma>>)

\* The text onExportCSV hands to the download.
PanelCsv(rs) ==
    Join(<<PanelCsvHeader>> \o [i \in 1..Len(rs) |-> PanelCsvLine(rs[i])], <<Newline>>)

\* ------------------------------------------------------------- the records
\* UserRow: the fields of a user the table reads.
Y2023 == <<"2", "0", "2", "3">>
Y2024 == <<"2", "0", "2", "4">>
\* new Date().toISOString() at the time a reset is clicked, as a year.
NowIso == <<"2", "0", "2", "5">>

U1 == [id |-> "u1", clerkUserId |-> Str(<<"k", "1">>), email |-> Str(<<"a", "n">>),
       firstName |-> Str(<<"b">>), lastName |-> NULL,
       inspectionCount |-> Num(5), monthlyInspectionCount |-> Num(2),
       lastResetDate |-> NULL, isActive |-> Bool(TRUE),
       createdAt |-> Str(Y2023), updatedAt |-> NULL]

U2 == [id |-> "u2", clerkUserId |-> Str(<<"k", "2">>), email |-> Str(<<"b", "o">>),
       firstName |-> NULL, lastName |-> NULL,
       inspectionCount |-> NULL, monthlyInspectionCount |-> NULL,
       lastResetDate |-> Str(Y2023), isActive |-> Bool(FALSE),
       createdAt |-> Str(Y2024), updatedAt |-> NULL]

U3 == [id |-> "u3", clerkUserId |-> Str(<<"k", "3">>), email |-> Str(<<"A", "b">>),
       firstName |-> Str(<<"a">>), lastName |-> Str(<<"N">>),
       inspectionCount |-> Num(1), monthlyInspectionCount |-> Num(0),
       lastResetDate |-> NULL, isActive |-> NULL,
       createdAt |-> NULL, updatedAt |-> NULL]

\* The collections the list endpoint answers with (FetchUsersResponse).
Datasets == {<<U1, U2, U3>>, <<U3>>}

Ids == {"u1", "u2", "u3"}

\* The texts typed into the search box.
Queries == {<<>>, <<" ", "A">>}

Tabs == {"all", "active", "inactive"}

\* The columns whose header calls toggleSort.
SortKeys == {"createdAt", "firstName"}

PAGE_SIZE_DEFAULT == 10

\* The page sizes of the select: the model offers small ones beside the
\* default, so that a handful of records spreads over several pages.
PageSizes == (1..MaxPageSize) \cup {PAGE_SIZE_DEFAULT}

\* ------------------------------------------------------------- sequences
Min2(a, b) == IF a < b THEN a ELSE b
Max2(a, b) == IF a > b THEN a ELSE b

\* Math.ceil(n / d) for n >= 0, d > 0.
CeilDiv(n, d) == (n + d - 1) \div d

\* Array.prototype.slice(start, end)
Slice(s, start, end) == SubSeq(s, Min2(start, Len(s)) + 1, Min2(end, Len(s)))

\* --------------------------------------------------------- the derived view
Compare_NullsByDirection(a, b, key, dir) ==
    LET av == a[key]
        bv == b[key]
        up == IF dir = "asc" THEN 1 ELSE -1
    IN  IF IsNullish(av) /\ IsNullish(bv) THEN 0
        ELSE IF IsNullish(av) THEN up
        ELSE IF IsNullish(bv) THEN -up
        ELSE IF av.t = "num" /\ bv.t = "num" THEN up * Sign(av.v - bv.v)
        ELSE IF av.t = "str" /\ bv.t = "str"
                /\ DateParse(av.v) # NaN /\ DateParse(bv.v) # NaN
             THEN up * Sign(DateParse(av.v) - DateParse(bv.v))
        ELSE up * localeCompare(toLowerCase(String(av)), toLowerCase(String(bv)))

\* The comparator of the sort, as a sign.
Compare(a, b, key, dir) ==
    LET av == a[key]
        bv == b[key]
    IN  IF IsNullish(av) /\ IsNullish(bv) THEN 0
        ELSE IF IsNullish(av) THEN 1
        ELSE IF IsNullish(bv) THEN -1
        ELSE IF av.t = "num" /\ bv.t = "num"
             THEN IF dir = "asc" THEN Sign(av.v - bv.v) ELSE Sign(bv.v - av.v)
        ELSE IF av.t = "str" /\ bv.t = "str"
                /\ DateParse(av.v) # NaN /\ DateParse(bv.v) # NaN
             THEN IF dir = "asc" THEN Sign(DateParse(av.v) - DateParse(bv.v))
                  ELSE Sign(DateParse(bv.v) - DateParse(av.v))
        ELSE LET as == toLowerCase(String(av))
                 bs == toLowerCase(String(bv))
             IN  IF dir = "asc" THEN localeCompare(as, bs) ELSE localeCompare(bs, as)

\* Array.prototype.sort is stable: an insertion sort that puts an element
\* after the elements it does not precede.
RECURSIVE InsertSorted(_, _, _, _)
InsertSorted(x, s, key, dir) ==
    IF s = <<>> THEN <<x>>
    ELSE IF Compare(x, Head(s), key, dir) < 0 THEN <<x>> \o s
    ELSE <<Head(s)>> \o InsertSorted(x, Tail(s), key, dir)

RECURSIVE SortRows(_, _, _)
SortRows(s, key, dir) ==
    IF s = <<>> THEN <<>>
    ELSE InsertSorted(s[Len(s)], SortRows(SubSeq(s, 1, Len(s) - 1), key, dir), key, dir)

PassesTab(r, tab) ==
    IF tab = "active" THEN Truthy(r.isActive)
    ELSE IF tab = "inactive" THEN ~Truthy(r.isActive)
    ELSE TRUE

RECURSIVE tabFilteredOf(_, _)
tabFilteredOf(rs, tab) ==
    IF rs = <<>> THEN <<>>
    ELSE IF PassesTab(Head(rs), tab) THEN <<Head(rs)>> \o tabFilteredOf(Tail(rs), tab)
    ELSE tabFilteredOf(Tail(rs), tab)

\* The predicate of the search filter; q is the trimmed, lower-cased query.
MatchesQuery(r, q) ==
    LET first == String(Coalesce(r.firstName, Str(<<>>)))
        last == String(Coalesce(r.lastName, Str(<<>>)))
        name == trim(first \o <<" ">> \o last)
    IN  \/ includes(toLowerCase(r.email.v), q)
        \/ includes(toLowerCase(name), q)
        \/ includes(toLowerCase(r.clerkUserId.v), q)

RECURSIVE SearchRows(_, _)
SearchRows(rs, q) ==
    IF rs = <<>> THEN <<>>
    ELSE IF MatchesQuery(Head(rs), q) THEN <<Head(rs)>> \o SearchRows(Tail(rs), q)
    ELSE SearchRows(Tail(rs), q)

filteredOf(rs, tab, qry, key, dir) ==
    LET q == toLowerCase(trim(qry))
        base == IF q # <<>> THEN SearchRows(tabFilteredOf(rs, tab), q)
                ELSE tabFilteredOf(rs, tab)
    IN  SortRows(base, key, dir)

pageCountOf(n, size) == Max2(1, CeilDiv(n, size))

pagedOf_FirstPage(f, pg, size) == Slice(f, 0, size)

pagedOf(f, pg, size) == Slice(f, (pg - 1) * size, (pg - 1) * size + size)

\* -------------------------------------------------------------------- state
VARIABLES
    rows,        \* useState<UserRow[]>
    loading,     \* useState(true)
    error,       \* useState<string | null>
    query,       \* the text of the search box
    sortKey,
    sortDir,
    page,
    pageSize,
    refreshing,
    activeTab,
    loads,       \* the list requests in flight: [seq, src]
    issued,      \* the number of list requests issued so far
    latest,      \* history: the collection brought by the latest-issued request answered
    maxOk,       \* history: the highest seq among the requests answered with a list
    muts,        \* the row actions called so far, in call order, each with its request
    crashed,     \* a render has thrown: the tree is unmounted
    last,        \* history: the step taken last
    mounted,     \* the table is in the tree (false once it was unmounted)
    panel,       \* the state of AdminInspectionsPanel and its requests in flight
    calc,        \* a cell value handed to the CSV export, and what came out
    memo,        \* the caches of the three useMemo calls of the users table
    guard,       \* MainLayout: what the identity hooks give it, and what it did
    checker      \* the state of SuperadminChecker and the call it is running

vars == <<rows, loading, error, query, sortKey, sortDir, page, pageSize, refreshing,
          activeTab, loads, issued, latest, maxOk, muts, crashed, last,
          mounted, panel, calc, memo, guard, checker>>

\* What the handlers of the users table leave alone.
others == <<mounted, panel, calc, memo, guard, checker>>

viewVars == <<query, sortKey, sortDir, page, pageSize, activeTab>>
loadVars == <<loads, issued, latest, maxOk>>

NoError == "null"

\* The derived values of a render.
tabFiltered == tabFilteredOf(rows, activeTab)
filtered == filteredOf(rows, activeTab, query, sortKey, sortDir)
pageCount == pageCountOf(Len(filtered), pageSize)
paged == pagedOf(filtered, page, pageSize)

\* The record of a step: its name, the request or row action it is about
\* (0: none) and, for the steps that change a filter, the page before it.
Step(op, arg) == [op |-> op, arg |-> arg, pageBefore |-> 0, outcome |-> "none"]

FilterStep(op) == [op |-> op, arg |-> 0, pageBefore |-> page, outcome |-> "none"]

\* The inspections panel while it is not in the tree (the route shows another
\* page), and no cell handed to the export yet.
PanelAbsent ==
    [mounted |-> FALSE, grade |-> "all", sortBy |-> "createdAt", order |-> "desc",
     page |-> 1, rows |-> <<>>, total |-> 0, loading |-> FALSE, error |-> NoError,
     reqs |-> {}, issued |-> 0, failedAt |-> 0,
     change |-> [op |-> "none", pageBefore |-> 1], last |-> [op |-> "none"]]

CalcIdle == [fn |-> "none", in |-> <<>>, out |-> <<>>]

\* The body of the useMemo of filtered, over the value of tabFiltered.
sortedOf(tf, qry, key, dir) ==
    LET q == toLowerCase(trim(qry))
        base == IF q # <<>> THEN SearchRows(tf, q) ELSE tf
    IN  SortRows(base, key, dir)

BaseAfterSort_InPlace(base, key, dir) == SortRows(base, key, dir)

\* [...base].sort(...): sort reorders the array it is called on, and that is
\* the new array the spread made; the array base names keeps its order.
BaseAfterSort(base, key, dir) == base

useMemo_ReturnsCached(cache, deps, fresh) ==
    [value |-> cache.value, cache |-> [deps |-> deps, value |-> fresh]]

\* useMemo(factory, deps): the value the call returns and the cache it
\* leaves. The factory runs when a dependency differs from the one of the
\* render before; otherwise the cached value is returned.
useMemo(cache, deps, fresh) ==
    IF cache.deps = deps THEN [value |-> cache.value, cache |-> cache]
    ELSE [value |-> fresh, cache |-> [deps |-> deps, value |-> fresh]]

\* The three useMemo calls of a render, each over the value of the one before.
RenderTabFiltered ==
    useMemo(memo.tabFiltered, <<rows, activeTab>>, tabFilteredOf(rows, activeTab))

RenderFiltered ==
    useMemo(memo.filtered, <<RenderTabFiltered.value, query, sortKey, sortDir>>,
            sortedOf(RenderTabFiltered.value, query, sortKey, sortDir))

RenderPaged ==
    useMemo(memo.paged, <<RenderFiltered.value, page, pageSize>>,
            pagedOf(RenderFiltered.value, page, pageSize))

\* The caches a render of the current state leaves.
MemoRendered ==
    [tabFiltered |-> [deps |-> <<rows, activeTab>>, value |-> tabFiltered],
     filtered |-> [deps |-> <<tabFiltered, query, sortKey, sortDir>>, value |-> filtered],
     paged |-> [deps |-> <<filtered, page, pageSize>>, value |-> paged]]

\* The route guard while it is not in the tree: the browser is on a public
\* route and Clerk has not loaded. isLoaded, isSignedIn and role are what
\* useUser gives (role is "null" for a user without appRole and for no user),
\* pathname is the location, shown what MainLayout rendered, pending the
\* calls of signOut not settled yet, each with the pathname of its render.
GuardAbsent ==
    [mounted |-> FALSE, isLoaded |-> FALSE, isSignedIn |-> FALSE, role |-> "null",
     pathname |-> "/sign-in", shown |-> "null", pending |-> {}, calls |-> 0,
     last |-> [op |-> "none", called |-> FALSE, navigated |-> FALSE]]

\* A call of checkSuperadminStatus or testMultipleEndpoints in progress: the
\* function, the await it is at, the endpoint of the loop and the items
\* pushed so far.
NoRun == [fn |-> "none", phase |-> "idle", endpoint |-> 0, results |-> <<>>]

\* The record of a step of the checker: whether it called fetch, the message
\* of the error authFetch threw in it ("none": it threw nothing), the
\* function that ran to its end in it and the path it ended on.
CheckerLast(op, outcome, fetched, thrown, completed, path) ==
    [op |-> op, outcome |-> outcome, fetched |-> fetched, thrown |-> thrown,
     completed |-> completed, path |-> path]

\* The superadmin checker while it is not in the tree: isSignedIn is what
\* useAuth gives, loading, result and error are its useState values.
CheckerAbsent ==
    [mounted |-> FALSE, isSignedIn |-> FALSE, loading |-> FALSE, result |-> NULL,
     error |-> NULL, run |-> NoRun,
     last |-> CheckerLast("none", "none", FALSE, "none", "none", "none")]

\* What lies outside the users table, the panel and the export at the start.
InitRest ==
    /\ memo = MemoRendered
    /\ guard = GuardAbsent
    /\ checker = CheckerAbsent

\* The state after the first render and its effects: the mount effect has set
\* loading and issued the first list request.
InitTable ==
    /\ rows = <<>>
    /\ loading = TRUE
    /\ error = NoError
    /\ query = <<>>
    /\ sortKey = "createdAt"
    /\ sortDir = "desc"
    /\ page = 1
    /\ pageSize = PAGE_SIZE_DEFAULT
    /\ refreshing = FALSE
    /\ activeTab = "all"
    /\ loads = {[seq |-> 1, src |-> "effect"]}
    /\ issued = 1
    /\ latest = <<>>
    /\ maxOk = 0
    /\ muts = <<>>
    /\ crashed = FALSE
    /\ last = [op |-> "mount", arg |-> 0, pageBefore |-> 0, outcome |-> "none"]
    /\ mounted = TRUE

Init ==
    /\ InitTable
    /\ panel = PanelAbsent
    /\ calc = CalcIdle
    /\ InitRest

\* ------------------------------------------------------ view parameters
PageResetEffect_Keep(q, size, tab) == page

PageResetEffect_QueryOnly(q, size, tab) == IF q # query THEN 1 ELSE page

\* The effect on [query, pageSize, activeTab]: it runs after the render in
\* which one of them changed.
PageResetEffect(q, size, tab) ==
    IF q # query \/ size # pageSize \/ tab # activeTab THEN 1 ELSE page

\* onChange of the search box
SetQuery(q) ==
    /\ mounted
    /\ ~crashed
    /\ q # query
    /\ query' = q
    /\ page' = PageResetEffect(q, pageSize, activeTab)
    /\ last' = FilterStep("setQuery")
    /\ UNCHANGED <<rows, loading, error, sortKey, sortDir, pageSize, refreshing,
                   activeTab, loadVars, muts, crashed, others>>

\* onValueChange of the tabs
SetActiveTab(tab) ==
    /\ mounted
    /\ ~crashed
    /\ tab # activeTab
    /\ activeTab' = tab
    /\ page' = PageResetEffect(query, pageSize, tab)
    /\ last' = FilterStep("setActiveTab")
    /\ UNCHANGED <<rows, loading, error, query, sortKey, sortDir, pageSize, refreshing,
                   loadVars, muts, crashed, others>>

\* onValueChange of the page-size select
SetPageSize(size) ==
    /\ mounted
    /\ ~crashed
    /\ size # pageSize
    /\ pageSize' = size
    /\ page' = PageResetEffect(query, size, activeTab)
    /\ last' = FilterStep("setPageSize")
    /\ UNCHANGED <<rows, loading, error, query, sortKey, sortDir, refreshing,
                   activeTab, loadVars, muts, crashed, others>>

toggleSort(key) ==
    /\ mounted
    /\ ~crashed
    /\ IF sortKey = key
       THEN /\ sortDir' = (IF sortDir = "asc" THEN "desc" ELSE "asc")
            /\ sortKey' = sortKey
       ELSE /\ sortKey' = key
            /\ sortDir' = "asc"
    /\ last' = Step("toggleSort", 0)
    /\ UNCHANGED <<rows, loading, error, query, page, pageSize, refreshing,
                   activeTab, loadVars, muts, crashed, others>>

\* The four pagination buttons; the first two are disabled on page 1, the
\* last two on page pageCount.
GoTo(op, target) ==
    /\ page' = target
    /\ last' = Step(op, 0)
    /\ UNCHANGED <<rows, loading, error, query, sortKey, sortDir, pageSize, refreshing,
                   activeTab, loadVars, muts, crashed, others>>

FirstPage == mounted /\ ~crashed /\ page # 1 /\ GoTo("firstPage", 1)
PrevPage == mounted /\ ~crashed /\ page # 1 /\ GoTo("prevPage", Max2(1, page - 1))
NextPage == mounted /\ ~crashed /\ page # pageCount /\ GoTo("nextPage", Min2(pageCount, page + 1))
LastPage == mounted /\ ~crashed /\ page # pageCount /\ GoTo("lastPage", pageCount)

\* ------------------------------------------------------------ list requests
\* What a list request ends in: a JSON array; the JSON value null; a JSON
\* value that is no array (an object); fetch rejecting; a status outside
\* 200..299; a body res.json() cannot parse.
LoadOutcomes == {"list", "null", "object", "network", "status", "unparseable"}

LoadFailures == {"network", "status", "unparseable"}

\* e.message of the error the try block throws.
LoadErrorMessage(outcome) ==
    CASE outcome = "status" -> "Failed to load users (500)"
      [] outcome = "network" -> "Failed to fetch"
      [] outcome = "unparseable" -> "Unexpected end of JSON input"

\* The refresh button (disabled while refreshing).
refresh ==
    /\ mounted
    /\ ~crashed
    /\ ~refreshing
    /\ issued < MaxLoads
    /\ refreshing' = TRUE
    /\ issued' = issued + 1
    /\ loads' = loads \cup {[seq |-> issued + 1, src |-> "refresh"]}
    /\ last' = Step("refresh", issued + 1)
    /\ UNCHANGED <<rows, loading, error, viewVars, latest, maxOk, muts, crashed, others>>

\* data ?? [] of setRows(data ?? [])
RowsOfBody(outcome, data) == IF outcome = "null" THEN <<>> ELSE data

\* The rest of the async function of the mount effect, from the await on.
InitialLoadSettles(req, outcome, data) ==
    /\ req.src = "effect"
    /\ rows' = (IF outcome \in {"list", "null"} THEN RowsOfBody(outcome, data) ELSE rows)
    /\ error' = (IF outcome \in LoadFailures THEN LoadErrorMessage(outcome) ELSE error)
    /\ loading' = FALSE
    /\ UNCHANGED refreshing

\* The rest of refresh, from the await on.
RefreshSettles(req, outcome, data) ==
    /\ req.src = "refresh"
    /\ rows' = (IF outcome \in {"list", "null"} THEN RowsOfBody(outcome, data) ELSE rows)
    /\ error' = (IF outcome \in LoadFailures THEN LoadErrorMessage(outcome) ELSE NoError)
    /\ refreshing' = FALSE
    /\ UNCHANGED loading

\* A list request settles. A body that is no array is stored as rows all the
\* same, and the next render throws on it (rows.filter is not a function):
\* without an error boundary the whole tree is unmounted.
LoadSettles(req, outcome, data) ==
    /\ mounted
    /\ ~crashed
    /\ req \in loads
    /\ loads' = loads \ {req}
    /\ \/ InitialLoadSettles(req, outcome, data)
       \/ RefreshSettles(req, outcome, data)
    /\ crashed' = (outcome = "object")
    /\ latest' = (IF outcome \in {"list", "null"} /\ req.seq > maxOk
                   THEN RowsOfBody(outcome, data) ELSE latest)
    /\ maxOk' = (IF outcome \in {"list", "null"} THEN Max2(maxOk, req.seq) ELSE maxOk)
    /\ last' = [op |-> "loadSettles", arg |-> req.seq, pageBefore |-> 0, outcome |-> outcome]
    /\ UNCHANGED <<viewVars, issued, muts, others>>

\* ------------------------------------------------------------- row actions
\* What a PATCH ends in: a parsed body (which the callers drop); fetch
\* rejecting; a status outside 200..299; a body res.json() cannot parse.
PatchOutcomes == {"ok", "network", "status", "unparseable"}

PatchFailures == {"network", "status", "unparseable"}

patchUserRejects_ParseIgnored(outcome) == outcome \in {"network", "status"}

\* patchUser: whether the promise it returns rejects.
patchUserRejects(outcome) == outcome \in PatchFailures

SetField_All(rs, id, field, value) ==
    [i \in 1..Len(rs) |-> [rs[i] EXCEPT ![field] = value]]

\* prev.map((r) => (r.id === id ? { ...r, [field]: value } : r))
SetField(rs, id, field, value) ==
    [i \in 1..Len(rs) |-> IF rs[i].id = id THEN [rs[i] EXCEPT ![field] = value] ELSE rs[i]]

\* const next = !(row.isActive ?? false)
NextActive(row) == Bool(~Truthy(Coalesce(row.isActive, Bool(FALSE))))

\* const prevVal = row.monthlyInspectionCount ?? 0
PrevVal(row) == Coalesce(row.monthlyInspectionCount, Num(0))

OptimisticRows_CountOnly(rs, kind, row) ==
    IF kind = "toggle"
    THEN [i \in 1..Len(rs) |->
              IF rs[i].id = row.id THEN [rs[i] EXCEPT !.isActive = Bool(~Truthy(row.isActive))]
              ELSE rs[i]]
    ELSE [i \in 1..Len(rs) |->
              IF rs[i].id = row.id THEN [rs[i] EXCEPT !.monthlyInspectionCount = Num(0)]
              ELSE rs[i]]

\* The first setRows of a row action: the optimistic change.
OptimisticRows(rs, kind, row) ==
    IF kind = "toggle"
    THEN SetField(rs, row.id, "isActive", NextActive(row))
    ELSE SetField(SetField(rs, row.id, "monthlyInspectionCount", Num(0)),
                  row.id, "lastResetDate", Str(NowIso))

RollbackRows_None(rs, kind, row) == rs

\* The setRows of the catch block.
RollbackRows(rs, kind, row) ==
    IF kind = "toggle"
    THEN SetField(rs, row.id, "isActive", row.isActive)
    ELSE SetField(rs, row.id, "monthlyInspectionCount", PrevVal(row))

\* How the promise of onToggleActive / onResetMonthly settles: the catch
\* block logs the error and returns, so the promise is fulfilled either way.
HandlerOutcome(rejected) == "fulfilled"

\* The records of rs with the given id, as a set (empty when there is none).
RowsWithId(rs, id) == {rs[i] : i \in {j \in 1..Len(rs) : rs[j].id = id}}

\* The record of rs with the given id.
RowWithId(rs, id) == CHOOSE r \in RowsWithId(rs, id) : TRUE

\* A row action of a rendered row (the switch, or an item of the row's menu):
\* the rows are rendered when loading is false. The handler runs up to its
\* await: the optimistic setRows, then the PATCH is sent. A row action keeps
\* the row the render gave it (row) and, as history, the record rows held
\* for that id when it was called (pre).
RowAction(kind, i) ==
    /\ mounted
    /\ ~crashed
    /\ ~loading
    /\ Len(muts) < MaxMutations
    /\ i \in 1..Len(paged)
    /\ LET row == paged[i]
       IN  /\ rows' = OptimisticRows(rows, kind, row)
           /\ muts' = Append(muts, [id |-> row.id, kind |-> kind, row |-> row,
                                    pre |-> RowWithId(rows, row.id),
                                    status |-> "inflight", outcome |-> "pending"])
           /\ last' = Step(kind, Len(muts) + 1)
    /\ UNCHANGED <<loading, error, viewVars, refreshing, loadVars, crashed, others>>

onToggleActive(i) == RowAction("toggle", i)

onResetMonthly(i) == RowAction("reset", i)

\* The record a PATCH that succeeds answers with (patchUser returns it): the
\* record with the patch applied, its updatedAt left as it was or set by the
\* server.
PatchedRecord(m) == RowWithId(OptimisticRows(<<m.row>>, m.kind, m.row), m.row.id)

PatchBodies(m) == {PatchedRecord(m), [PatchedRecord(m) EXCEPT !.updatedAt = Str(NowIso)]}

\* What the response to row action m carries, by how the PATCH ends.
PatchResponses(m, outcome) ==
    IF m \in 1..Len(muts) /\ outcome = "ok" THEN PatchBodies(muts[m]) ELSE {NULL}

\* The PATCH of row action m settles: the rest of the handler, from the await
\* on. The record patchUser resolves to is dropped by both handlers.
PatchSettles(m, outcome, body) ==
    /\ mounted
    /\ ~crashed
    /\ m \in 1..Len(muts)
    /\ muts[m].status = "inflight"
    /\ rows' = (IF patchUserRejects(outcome)
                THEN RollbackRows(rows, muts[m].kind, muts[m].row)
                ELSE rows)
    /\ muts' = [muts EXCEPT ![m].status = (IF patchUserRejects(outcome) THEN "failed" ELSE "ok"),
                            ![m].outcome = HandlerOutcome(patchUserRejects(outcome))]
    /\ last' = [op |-> "patchSettles", arg |-> m, pageBefore |-> 0, outcome |-> outcome,
                returned |-> body]
    /\ UNCHANGED <<loading, error, viewVars, refreshing, loadVars, crashed, others>>

\* ------------------------------------------------------------- unmounting
\* The table leaves the tree: the cleanup of the mount effect sets its
\* cancelled flag. The requests in flight stay in flight.
Unmount ==
    /\ mounted
    /\ ~crashed
    /\ mounted' = FALSE
    /\ last' = Step("unmount", 0)
    /\ UNCHANGED <<rows, loading, error, viewVars, refreshing, loadVars, muts, crashed,
                   panel, calc, memo, guard, checker>>

SetStateUnmounted_Applied(old, new) == new

\* A state setter called once the component is unmounted: React drops the
\* update, the state keeps the value it had.
SetStateUnmounted(old, new) == old

\* A list request settles after the unmount. The async function of the mount
\* effect calls no setter once cancelled is set; refresh calls its setters
\* all the same.
LoadSettlesUnmounted(req, outcome, data) ==
    /\ ~mounted
    /\ req \in loads
    /\ loads' = loads \ {req}
    /\ IF req.src = "effect"
       THEN UNCHANGED <<rows, error, loading, refreshing>>
       ELSE /\ rows' = SetStateUnmounted(rows, IF outcome \in {"list", "null"}
                                               THEN RowsOfBody(outcome, data) ELSE rows)
            /\ error' = SetStateUnmounted(error, IF outcome \in LoadFailures
                                                 THEN LoadErrorMessage(outcome) ELSE NoError)
            /\ refreshing' = SetStateUnmounted(refreshing, FALSE)
            /\ UNCHANGED loading
    /\ latest' = (IF outcome \in {"list", "null"} /\ req.seq > maxOk
                   THEN RowsOfBody(outcome, data) ELSE latest)
    /\ maxOk' = (IF outcome \in {"list", "null"} THEN Max2(maxOk, req.seq) ELSE maxOk)
    /\ last' = [op |-> "loadSettles", arg |-> req.seq, pageBefore |-> 0, outcome |-> outcome]
    /\ UNCHANGED <<viewVars, issued, muts, crashed, others>>

\* The PATCH of row action m settles after the unmount: the catch block
\* calls setRows all the same.
PatchSettlesUnmounted(m, outcome, body) ==
    /\ ~mounted
    /\ m \in 1..Len(muts)
    /\ muts[m].status = "inflight"
    /\ rows' = SetStateUnmounted(rows, IF patchUserRejects(outcome)
                                       THEN RollbackRows(rows, muts[m].kind, muts[m].row)
                                       ELSE rows)
    /\ muts' = [muts EXCEPT ![m].status = (IF patchUserRejects(outcome) THEN "failed" ELSE "ok"),
                            ![m].outcome = HandlerOutcome(patchUserRejects(outcome))]
    /\ last' = [op |-> "patchSettles", arg |-> m, pageBefore |-> 0, outcome |-> outcome,
                returned |-> body]
    /\ UNCHANGED <<loading, error, viewVars, refreshing, loadVars, crashed, others>>

\* ----------------------------------------------------- inspections panel
\* AdminInspectionsPanel (src/src/components/AdminInspectionsPanel.tsx): the
\* list is filtered, sorted and paged by the server; the panel keeps the page
\* the server answered with (rows) and the number of matching records (total).
\* Its state is the record panel; reqs are the calls of fetchAll in flight,
\* each with the parameters of the query string it sent; failedAt is history:
\* the number of calls made when a call first failed (0: none has failed);
\* change is history too: the last change of a filter, the sort or the page,
\* and the page the panel was on before it.
I1 == [id |-> "i1", createdAt |-> Str(Y2023), userEmail |-> Str(<<"a", "n">>),
       userId |-> Str(<<"k", "1">>), hazardCount |-> NULL, riskScore |-> Num(3),
       safetyGrade |-> Str(<<"A">>), processingStatus |-> Str(<<"f", "a", "i", "l", "e", "d">>)]

I2 == [id |-> "i2", createdAt |-> Str(Y2024), userEmail |-> NULL,
       userId |-> Str(<<"k", "2">>), hazardCount |-> Num(2), riskScore |-> Num(1),
       safetyGrade |-> Str(<<"B">>), processingStatus |-> Str(<<"f", "a", "i", "l", "e", "d">>)]

I3 == [id |-> "i3", createdAt |-> Str(NowIso), userEmail |-> Str(<<"b", "o">>),
       userId |-> Str(<<"k", "1">>), hazardCount |-> Num(0), riskScore |-> Num(2),
       safetyGrade |-> Str(<<"A">>), processingStatus |-> Str(<<"f", "a", "i", "l", "e", "d">>)]

\* The inspections the endpoint GET /api/inspections/admin/all serves.
Inspections == <<I1, I2, I3>>

Grades == {"all", "A"}

PanelSortFields == {"createdAt", "riskScore"}

Orders == {"asc", "desc"}

RECURSIVE GradeFiltered(_, _)
GradeFiltered(rs, grade) ==
    IF rs = <<>> THEN <<>>
    ELSE IF grade = "all" \/ Head(rs).safetyGrade = Str(<<grade>>)
         THEN <<Head(rs)>> \o GradeFiltered(Tail(rs), grade)
    ELSE GradeFiltered(Tail(rs), grade)

\* The body the endpoint answers a query string with (AdminAllResponse): the
\* page of the matching inspections in the order asked for, and their number.
AdminAllResponse(req) ==
    LET matching == SortRows(GradeFiltered(Inspections, req.grade), req.sortBy, req.order)
    IN  [inspections |-> Slice(matching, (req.page - 1) * PanelPageSize,
                               req.page * PanelPageSize),
         total |-> Len(matching)]

totalPages == Max2(1, CeilDiv(panel.total, PanelPageSize))

\* buildQuery: the parameters a call of fetchAll sends, read from the render
\* the call was made in.
buildQuery(seq, pg, grade, sortBy, order) ==
    [seq |-> seq, page |-> pg, grade |-> grade, sortBy |-> sortBy, order |-> order]

fetchAllCalls_None(first, second) == {}

\* The calls of fetchAll the effects of one render make.
fetchAllCalls(first, second) == first \cup second

\* fetchAll up to its first await, for the calls made after one change of
\* state: loading is set, error is cleared, the requests go out.
PanelAfter(op, pg, grade, sortBy, order, calls) ==
    [panel EXCEPT !.page = pg, !.grade = grade, !.sortBy = sortBy, !.order = order,
                  !.loading = (calls # {}) \/ panel.loading,
                  !.error = IF calls # {} THEN NoError ELSE panel.error,
                  !.reqs = panel.reqs \cup calls,
                  !.issued = panel.issued + Cardinality(calls),
                  !.change = IF op = "refresh" THEN panel.change
                             ELSE [op |-> op, pageBefore |-> panel.page],
                  !.last = [op |-> op]]

tableVars == <<rows, loading, error, viewVars, refreshing, loadVars, muts, crashed, last,
               mounted>>

\* The panel after its first render and its effects: the effect on
\* [page, sortBy, order] and the effect on the filters have each called
\* fetchAll.
PanelInit ==
    [PanelAbsent EXCEPT !.mounted = TRUE, !.loading = TRUE,
                        !.reqs = {buildQuery(1, 1, "all", "createdAt", "desc"),
                                  buildQuery(2, 1, "all", "createdAt", "desc")},
                        !.issued = 2, !.last = [op |-> "mount"]]

\* The Refresh button (disabled while loading).
fetchAll ==
    /\ panel.mounted
    /\ ~panel.loading
    /\ panel.issued < MaxPanelLoads
    /\ panel' = PanelAfter("refresh", panel.page, panel.grade, panel.sortBy, panel.order,
                           fetchAllCalls({buildQuery(panel.issued + 1, panel.page, panel.grade,
                                                     panel.sortBy, panel.order)}, {}))
    /\ UNCHANGED <<tableVars, calc, memo, guard, checker>>

\* A filter changes (setGrade; setUserId, setStatus, setFrom and setTo go the
\* same way): the effect on the filters calls setPage(1) and fetchAll, which
\* still sends the page of this render; when that page was not 1, the render
\* that follows runs the effect on [page, sortBy, order], which calls
\* fetchAll again.
setGrade(g) ==
    /\ panel.mounted
    /\ g # panel.grade
    /\ panel.issued + (IF panel.page # 1 THEN 2 ELSE 1) <= MaxPanelLoads
    /\ panel' = PanelAfter("setGrade", 1, g, panel.sortBy, panel.order,
                   fetchAllCalls({buildQuery(panel.issued + 1, panel.page, g,
                                             panel.sortBy, panel.order)},
                                 IF panel.page # 1
                                 THEN {buildQuery(panel.issued + 2, 1, g,
                                                  panel.sortBy, panel.order)}
                                 ELSE {}))
    /\ UNCHANGED <<tableVars, calc, memo, guard, checker>>

\* A change of page, sort field or order: the effect on [page, sortBy, order]
\* calls fetchAll.
PanelViewChange(op, pg, sortBy, order) ==
    /\ panel.mounted
    /\ panel.issued < MaxPanelLoads
    /\ panel' = PanelAfter(op, pg, panel.grade, sortBy, order,
                           fetchAllCalls({buildQuery(panel.issued + 1, pg, panel.grade,
                                                     sortBy, order)}, {}))
    /\ UNCHANGED <<tableVars, calc, memo, guard, checker>>

setSortBy(f) == f # panel.sortBy /\ PanelViewChange("setSortBy", panel.page, f, panel.order)

setOrder(o) == o # panel.order /\ PanelViewChange("setOrder", panel.page, panel.sortBy, o)

\* The Previous and Next buttons.
PanelPrevious ==
    /\ panel.page > 1
    /\ PanelViewChange("previous", Max2(1, panel.page - 1), panel.sortBy, panel.order)

PanelNext ==
    /\ panel.page < totalPages
    /\ PanelViewChange("next", Min2(totalPages, panel.page + 1), panel.sortBy, panel.order)

\* What a call of fetchAll ends in: a body with ok true; getToken or fetch
\* rejecting; a status outside 200..299; a body res.json() cannot parse; a
\* body with ok false.
PanelOutcomes == {"ok", "network", "status", "unparseable", "notok"}

\* e.message || "Failed to load"
PanelErrorMessage(outcome) ==
    CASE outcome = "network" -> "Failed to fetch"
      [] outcome = "status" -> "HTTP 500"
      [] outcome = "unparseable" -> "Unexpected end of JSON input"
      [] outcome = "notok" -> "Response not ok"

\* The rest of fetchAll, from the await of fetch on.
fetchAllSettles(req, outcome) ==
    /\ panel.mounted
    /\ req \in panel.reqs
    /\ panel' = [panel EXCEPT
                    !.reqs = panel.reqs \ {req},
                    !.rows = IF outcome = "ok" THEN AdminAllResponse(req).inspections
                             ELSE panel.rows,
                    !.total = IF outcome = "ok" THEN AdminAllResponse(req).total
                              ELSE panel.total,
                    !.error = IF outcome = "ok" THEN panel.error
                              ELSE PanelErrorMessage(outcome),
                    !.loading = FALSE,
                    !.failedAt = IF outcome # "ok" /\ panel.failedAt = 0
                                 THEN panel.issued ELSE panel.failedAt,
                    !.last = [op |-> "settles", outcome |-> outcome]]
    /\ UNCHANGED <<tableVars, calc, memo, guard, checker>>

\* The Export CSV button of the panel: the rows the panel holds, that is the
\* page the server answered with, go into the file inspections_page<page>.csv.
onExportCSV ==
    /\ panel.mounted
    /\ panel' = [panel EXCEPT !.last = [op |-> "export", text |-> PanelCsv(panel.rows)]]
    /\ UNCHANGED <<tableVars, calc, memo, guard, checker>>

\* ------------------------------------------------- export of the users table
exportCsvText_Paged == toCsv(paged)

\* toCsv(filtered): the text exportCsv hands to downloadText.
exportCsvText == toCsv(filtered)

\* The Export button of the users table.
exportCsv ==
    /\ mounted
    /\ ~crashed
    /\ last' = [op |-> "exportCsv", arg |-> 0, pageBefore |-> 0, outcome |-> "none",
                text |-> exportCsvText]
    /\ UNCHANGED <<rows, loading, error, viewVars, refreshing, loadVars, muts, crashed,
                   others>>

\* ------------------------------------------------------------ route guard
\* MainLayout (src/src/layouts/MainLayout.tsx), the element of the protected
\* routes of src/src/main.tsx; /sign-in belongs to AuthLayout.
ProtectedPaths == {"/", "/users"}

\* The values of user.publicMetadata.appRole, "null" standing for none.
Roles == {"null", "superadmin", "Superadmin", "admin"}

\* What useUser can give: nothing before Clerk has loaded, no user when
\* nobody is signed in.
Identities ==
    {id \in [isLoaded : BOOLEAN, isSignedIn : BOOLEAN, role : Roles] :
        /\ (~id.isLoaded => ~id.isSignedIn)
        /\ (~id.isSignedIn => id.role = "null")}

GuardRender_AnyRole(isLoaded, isSignedIn, role) ==
    IF ~isLoaded \/ ~isSignedIn THEN "null" ELSE "content"

\* What MainLayout returns: null, or the sidebar with the routed page.
GuardRender(isLoaded, isSignedIn, role) ==
    IF ~isLoaded \/ ~isSignedIn \/ role # "superadmin" THEN "null" ELSE "content"

\* navigateTo("/sign-in", { replace: true }): the route is one of AuthLayout,
\* MainLayout leaves the tree.
NavigateToSignIn(g) ==
    [g EXCEPT !.pathname = "/sign-in", !.mounted = FALSE, !.shown = "null",
              !.last.navigated = TRUE]

WrongRoleBranch_NavigatesAtOnce(g) ==
    NavigateToSignIn([g EXCEPT !.pending = @ \cup {[seq |-> g.calls + 1, pathname |-> g.pathname]},
                               !.calls = @ + 1,
                               !.last.called = TRUE])

\* The branch of the effect for a signed-in user of another role, up to its
\* await: signOut is called, the rest waits for it to settle.
WrongRoleBranch(g) ==
    [g EXCEPT !.pending = @ \cup {[seq |-> g.calls + 1, pathname |-> g.pathname]},
              !.calls = @ + 1,
              !.last.called = TRUE]

\* The effect of MainLayout, run after the render of g.
GuardEffect(g) ==
    IF ~g.isLoaded THEN g
    ELSE IF ~g.isSignedIn
         THEN IF g.pathname # "/sign-in" THEN NavigateToSignIn(g) ELSE g
    ELSE IF g.role # "superadmin" THEN WrongRoleBranch(g)
    ELSE g

\* Whether the effect of a render with this identity calls signOut.
CallsSignOut(id) == id.isLoaded /\ id.isSignedIn /\ id.role # "superadmin"

\* A render of MainLayout with the given identity and location, and the
\* effect after it (a dependency has changed, or it is the first render).
GuardAfter(op, id, path) ==
    GuardEffect([guard EXCEPT !.mounted = TRUE,
                              !.isLoaded = id.isLoaded,
                              !.isSignedIn = id.isSignedIn,
                              !.role = id.role,
                              !.pathname = path,
                              !.shown = GuardRender(id.isLoaded, id.isSignedIn, id.role),
                              !.last = [op |-> op, called |-> FALSE, navigated |-> FALSE]])

GuardIdentity == [isLoaded |-> guard.isLoaded, isSignedIn |-> guard.isSignedIn,
                  role |-> guard.role]

\* The browser goes to a protected route while it is on a public one:
\* MainLayout mounts.
GuardMount(path) ==
    /\ ~guard.mounted
    /\ CallsSignOut(GuardIdentity) => guard.calls < MaxSignOuts
    /\ guard' = GuardAfter("mount", GuardIdentity, path)
    /\ UNCHANGED <<tableVars, panel, calc, memo, checker>>

\* The location changes from one protected route to another (a link of the
\* sidebar, the back button).
LocationChanges(path) ==
    /\ guard.mounted
    /\ path # guard.pathname
    /\ CallsSignOut(GuardIdentity) => guard.calls < MaxSignOuts
    /\ guard' = GuardAfter("location", GuardIdentity, path)
    /\ UNCHANGED <<tableVars, panel, calc, memo, checker>>

\* Clerk changes what useUser gives: it has loaded, a session has begun or
\* ended, the metadata of the user has changed. Off the protected routes no
\* MainLayout renders.
ClerkChanges(id) ==
    /\ id # GuardIdentity
    /\ (guard.mounted /\ CallsSignOut(id)) => guard.calls < MaxSignOuts
    /\ guard' = IF guard.mounted THEN GuardAfter("clerk", id, guard.pathname)
                 ELSE [guard EXCEPT !.isLoaded = id.isLoaded,
                                    !.isSignedIn = id.isSignedIn,
                                    !.role = id.role,
                                    !.last = [op |-> "clerk", called |-> FALSE,
                                              navigated |-> FALSE]]
    /\ UNCHANGED <<tableVars, panel, calc, memo, checker>>

SignOutOutcomes == {"ok", "fails"}

\* A call of signOut settles: the finally block of the async function runs
\* with the pathname of the render that made the call. When signOut has
\* succeeded the session has ended.
signOutSettles(call, outcome) ==
    /\ call \in guard.pending
    /\ LET settled == [guard EXCEPT
                           !.pending = @ \ {call},
                           !.isSignedIn = IF outcome = "ok" THEN FALSE ELSE @,
                           !.role = IF outcome = "ok" THEN "null" ELSE @,
                           !.shown = IF outcome = "ok" THEN "null" ELSE @,
                           !.last = [op |-> "signOutSettles", called |-> FALSE,
                                     navigated |-> FALSE]]
       IN  guard' = IF call.pathname # "/sign-in" THEN NavigateToSignIn(settled)
                    ELSE settled
    /\ UNCHANGED <<tableVars, panel, calc, memo, checker>>

\* ------------------------------------------------------ superadmin checker
\* SuperadminChecker (src/unnamed/part_000). A response is a status with a
\* body: text that is no JSON, the JSON value null, an object without an
\* error member, an object with one.
CheckerStatuses == {200, 403, 500}

CheckerBodies ==
    {[t |-> "nonjson"], [t |-> "null"], [t |-> "obj", error |-> "undefined"],
     [t |-> "obj", error |-> "Superadmin only"]}

\* fetch rejecting: no response at all.
NetworkFailure == [status |-> 0, body |-> [t |-> "none"]]

CheckerResponses == [status : CheckerStatuses, body : CheckerBodies] \cup {NetworkFailure}

\* const endpoints = [`${API_BASE}/api/superadmin-only`, `${API_BASE}/protected`]
Endpoints == <<"/api/superadmin-only", "/protected">>

\* What getToken ends in: a token, null, a rejection.
TokenOutcomes == {"token", "null", "rejects"}

ResOk(status) == status \in 200..299

AfterGetToken_FetchAnyway(outcome) == "fetch"

\* authFetch once getToken has settled: it throws without a token, and calls
\* fetch with one.
AfterGetToken(outcome) == IF outcome = "token" THEN "fetch" ELSE "throw"

\* The message of the error authFetch throws when getToken gave no token or
\* rejected.
TokenErrorMessage(outcome) ==
    IF outcome = "null" THEN "No session token. Are you signed in?"
    ELSE "Clerk: token request failed"

\* The message of the error authFetch throws once fetch has settled ("none":
\* it returns res and data): fetch rejected, or res.json() rejected.
FetchErrorMessage(resp) ==
    IF resp = NetworkFailure THEN "Failed to fetch"
    ELSE IF resp.body.t = "nonjson" THEN "Non-JSON response (status)"
    ELSE "none"

\* setError(`Network/auth error: ${msg}`) of the catch block.
CaughtError(msg) == [t |-> "str", kind |-> "Network/auth error", msg |-> msg]

\* (data as ApiError).error ?? fallback
ErrorOf(body, fallback) == IF body.error = "undefined" THEN fallback ELSE body.error

CheckOutcome_ForbiddenSetsBoth(resp) ==
    IF ResOk(resp.status)
    THEN [result |-> [t |-> "single", isSuperadmin |-> TRUE, data |-> resp.body],
          error |-> NULL, path |-> "ok"]
    ELSE [result |-> [t |-> "single", isSuperadmin |-> FALSE, error |-> "Forbidden"],
          error |-> CaughtError("Forbidden"), path |-> "forbidden"]

\* The try block of checkSuperadminStatus once authFetch has returned, with
\* its catch block: the result and the error it sets (NULL: left as it was,
\* null), and the path taken. Reading .error of a body that is null throws a
\* TypeError, which the catch block turns into an error.
CheckOutcome(resp) ==
    IF ResOk(resp.status)
    THEN [result |-> [t |-> "single", isSuperadmin |-> TRUE, data |-> resp.body],
          error |-> NULL, path |-> "ok"]
    ELSE IF resp.body.t = "null"
         THEN [result |-> NULL,
               error |-> CaughtError("Cannot read properties of null (reading 'error')"),
               path |-> IF resp.status = 403 THEN "forbidden" ELSE "other"]
    ELSE IF resp.status = 403
         THEN [result |-> [t |-> "single", isSuperadmin |-> FALSE,
                           error |-> ErrorOf(resp.body, "Forbidden")],
               error |-> NULL, path |-> "forbidden"]
    ELSE [result |-> NULL,
          error |-> [t |-> "str", kind |-> "Unexpected response", status |-> resp.status,
                     msg |-> ErrorOf(resp.body, "Unknown error")],
          path |-> "other"]

\* The rest of checkSuperadminStatus from the point where it sets result or
\* error: the finally block sets loading to false.
CheckCompletes(res, err, step) ==
    [checker EXCEPT !.result = res, !.error = err, !.loading = FALSE,
                    !.run = NoRun, !.last = step]

\* The Check Superadmin Status button (disabled while loading). Not signed
\* in, the function throws before its first await and runs to its end.
checkSuperadminStatus ==
    /\ checker.mounted
    /\ ~checker.loading
    /\ checker' =
          IF ~checker.isSignedIn
          THEN CheckCompletes(NULL, CaughtError("You must be signed in."),
                              CheckerLast("check", "none", FALSE, "none", "check",
                                          "notSignedIn"))
          ELSE [checker EXCEPT !.loading = TRUE, !.result = NULL, !.error = NULL,
                               !.run = [NoRun EXCEPT !.fn = "check", !.phase = "getToken"],
                               !.last = CheckerLast("check", "none", FALSE, "none", "none",
                                                    "none")]
    /\ UNCHANGED <<tableVars, panel, calc, memo, guard>>

\* The Test Multiple Endpoints button (disabled while loading): the loop
\* reaches the getToken of its first authFetch.
testMultipleEndpoints ==
    /\ checker.mounted
    /\ ~checker.loading
    /\ checker' = [checker EXCEPT
                      !.loading = TRUE, !.result = NULL, !.error = NULL,
                      !.run = [fn |-> "multi", phase |-> "getToken", endpoint |-> 1,
                               results |-> <<>>],
                      !.last = CheckerLast("multi", "none", FALSE, "none", "none", "none")]
    /\ UNCHANGED <<tableVars, panel, calc, memo, guard>>

\* testMultipleEndpoints after an item was pushed: the next turn of the loop
\* up to its getToken, or, past the last endpoint, setResult and
\* setLoading(false).
MultiPushes(item, step) ==
    LET results == Append(checker.run.results, item)
    IN  IF checker.run.endpoint < Len(Endpoints)
        THEN [checker EXCEPT !.run.endpoint = @ + 1, !.run.phase = "getToken",
                             !.run.results = results, !.last = step]
        ELSE [checker EXCEPT !.result = [t |-> "multi", results |-> results],
                             !.loading = FALSE, !.run = NoRun,
                             !.last = [step EXCEPT !.completed = "multi"]]

\* The item testMultipleEndpoints pushes for an authFetch that threw.
ErrorItem(msg) ==
    [endpoint |-> Endpoints[checker.run.endpoint], isSuperadmin |-> FALSE, error |-> msg]

\* The getToken of authFetch settles.
getTokenSettles(outcome) ==
    /\ checker.mounted
    /\ checker.run.phase = "getToken"
    /\ checker' =
          IF AfterGetToken(outcome) = "fetch"
          THEN [checker EXCEPT !.run.phase = "fetch",
                               !.last = CheckerLast("getTokenSettles", outcome, TRUE, "none",
                                                    "none", "none")]
          ELSE IF checker.run.fn = "check"
               THEN CheckCompletes(NULL, CaughtError(TokenErrorMessage(outcome)),
                                   CheckerLast("getTokenSettles", outcome, FALSE,
                                               TokenErrorMessage(outcome), "check",
                                               IF outcome = "null" THEN "noToken"
                                               ELSE "tokenRejected"))
          ELSE MultiPushes(ErrorItem(TokenErrorMessage(outcome)),
                           CheckerLast("getTokenSettles", outcome, FALSE,
                                       TokenErrorMessage(outcome), "none", "none"))
    /\ UNCHANGED <<tableVars, panel, calc, memo, guard>>

\* The fetch of authFetch settles, and with it res.json().
fetchSettles(resp) ==
    /\ checker.mounted
    /\ checker.run.phase = "fetch"
    /\ LET msg == FetchErrorMessage(resp)
           step == CheckerLast("fetchSettles",
                               IF resp = NetworkFailure THEN "network" ELSE "response",
                               FALSE, msg, "none", "none")
       IN  checker' =
             IF checker.run.fn = "check"
             THEN IF msg # "none"
                  THEN CheckCompletes(NULL, CaughtError(msg),
                                      [step EXCEPT !.completed = "check",
                                                   !.path = IF resp = NetworkFailure THEN "transport"
                                                            ELSE "nonJson"])
                  ELSE CheckCompletes(CheckOutcome(resp).result, CheckOutcome(resp).error,
                                      [step EXCEPT !.completed = "check",
                                                   !.path = CheckOutcome(resp).path])
             ELSE IF msg # "none"
                  THEN MultiPushes(ErrorItem(msg), step)
                  ELSE MultiPushes([endpoint |-> Endpoints[checker.run.endpoint],
                                    status |-> resp.status,
                                    isSuperadmin |-> ResOk(resp.status)], step)
    /\ UNCHANGED <<tableVars, panel, calc, memo, guard>>

\* useAuth gives another isSignedIn: a session has begun or ended.
SessionChanges ==
    /\ checker.mounted
    /\ checker' = [checker EXCEPT !.isSignedIn = ~@,
                                  !.last = CheckerLast("session", "none", FALSE, "none",
                                                       "none", "none")]
    /\ UNCHANGED <<tableVars, panel, calc, memo, guard>>

\* ------------------------------------------------------- render of the table
\* The body of the component runs again (a render): the three useMemo calls
\* give the rows of the table body. Under the tab "all" with a blank query
\* tabFiltered and base are the array rows itself, which is what the factory
\* of filtered, when it runs, hands to the spread. The step keeps, as history,
\* whether the step before was a render too and what that render gave.
Render ==
    /\ mounted
    /\ ~crashed
    /\ rows' = (IF /\ activeTab = "all"
                   /\ toLowerCase(trim(query)) = <<>>
                   /\ RenderFiltered.cache # memo.filtered
                THEN BaseAfterSort(rows, sortKey, sortDir)
                ELSE rows)
    /\ memo' = [tabFiltered |-> RenderTabFiltered.cache,
                filtered |-> RenderFiltered.cache,
                paged |-> RenderPaged.cache]
    /\ last' = [op |-> "render", arg |-> 0, pageBefore |-> 0, outcome |-> "none",
                out |-> RenderPaged.value,
                again |-> (last.op = "render"),
                before |-> IF last.op = "render" THEN last.out ELSE <<>>]
    /\ UNCHANGED <<loading, error, viewVars, refreshing, loadVars, muts, crashed,
                   mounted, panel, calc, guard, checker>>

\* ------------------------------------------------------------ specification
ViewStep ==
    \/ \E q \in Queries : SetQuery(q)
    \/ \E key \in SortKeys : toggleSort(key)

FilterPageStep ==
    \/ \E tab \in Tabs : SetActiveTab(tab)
    \/ \E size \in PageSizes : SetPageSize(size)
    \/ FirstPage
    \/ PrevPage
    \/ NextPage
    \/ LastPage

LoadStep ==
    \/ refresh
    \/ \E req \in loads, outcome \in LoadOutcomes, data \in Datasets :
           LoadSettles(req, outcome, data)

RowStep ==
    \/ \E i \in 1..PAGE_SIZE_DEFAULT : onToggleActive(i)
    \/ \E i \in 1..PAGE_SIZE_DEFAULT : onResetMonthly(i)
    \/ \E m \in 1..MaxMutations, outcome \in PatchOutcomes :
           \E body \in PatchResponses(m, outcome) : PatchSettles(m, outcome, body)

\* The component: every handler and every response.
Next == ViewStep \/ FilterPageStep \/ LoadStep \/ RowStep

Spec == Init /\ [][Next]_vars

\* The view of the table over the collections the loads bring: every view
\* parameter changes, no row action is taken.
NextView == ViewStep \/ FilterPageStep \/ LoadStep

SpecView == Init /\ [][NextView]_vars

\* The view of the table over one loaded collection: the state after the
\* first list request was answered with a list, and from there the view
\* parameters alone.
InitLoaded ==
    /\ rows \in Datasets
    /\ loading = FALSE
    /\ error = NoError
    /\ query = <<>>
    /\ sortKey = "createdAt"
    /\ sortDir = "desc"
    /\ page = 1
    /\ pageSize = PAGE_SIZE_DEFAULT
    /\ refreshing = FALSE
    /\ activeTab = "all"
    /\ loads = {}
    /\ issued = 1
    /\ latest = rows
    /\ maxOk = 1
    /\ muts = <<>>
    /\ crashed = FALSE
    /\ last = [op |-> "loadSettles", arg |-> 1, pageBefore |-> 0, outcome |-> "list"]
    /\ mounted = TRUE
    /\ panel = PanelAbsent
    /\ calc = CalcIdle
    /\ InitRest

NextFixedItems == ViewStep \/ FilterPageStep

SpecFixedItems == InitLoaded /\ [][NextFixedItems]_vars

\* The renders of the table over one loaded collection: the view parameters
\* change, and the component renders at any moment, any number of times.
NextRender == ViewStep \/ FilterPageStep \/ Render

SpecRender == InitLoaded /\ [][NextRender]_vars

\* The row actions over the loaded collections, under the tab filter that
\* decides which rows are rendered; the search box stays empty, the sort and
\* the page size stay the default ones, so every row of the tab is on page 1.
TabStep == \E tab \in Tabs : SetActiveTab(tab)

NextRows == TabStep \/ LoadStep \/ RowStep

SpecRows == Init /\ [][NextRows]_vars

\* The table with its requests, unmounted at any moment: the responses that
\* arrive before the unmount and those that arrive after it.
DisposeStep ==
    \/ Unmount
    \/ \E req \in loads, outcome \in LoadOutcomes, data \in Datasets :
           LoadSettlesUnmounted(req, outcome, data)
    \/ \E m \in 1..MaxMutations, outcome \in PatchOutcomes :
           \E body \in PatchResponses(m, outcome) : PatchSettlesUnmounted(m, outcome, body)

NextDispose == LoadStep \/ RowStep \/ DisposeStep

SpecDispose == Init /\ [][NextDispose]_vars

\* The cell maps of the two exports, applied to one value: the values are the
\* strings of up to MaxCellLen characters over a letter, the quote and the
\* comma, and the example of the specification.
CsvChars == {"a", Quote, Comma}

CsvExample == <<"H", "e", " ", "s", "a", "i", "d", " ", Quote, "h", "i", Quote, Comma,
                " ", "o", "n", "c", "e">>

CsvExampleOut == <<Quote, "H", "e", " ", "s", "a", "i", "d", " ", Quote, Quote, "h", "i",
                   Quote, Quote, Comma, " ", "o", "n", "c", "e", Quote>>

CsvValues == UNION {[1..n -> CsvChars] : n \in 0..MaxCellLen} \cup {CsvExample}

InitCsv ==
    /\ InitTable
    /\ panel = PanelAbsent
    /\ calc \in {[fn |-> "none", in |-> v, out |-> <<>>] : v \in CsvValues}
    /\ InitRest

CsvStep(fn, out) ==
    /\ calc.fn = "none"
    /\ calc' = [calc EXCEPT !.fn = fn, !.out = out]
    /\ UNCHANGED <<rows, loading, error, viewVars, refreshing, loadVars, muts, crashed,
                   last, mounted, panel, memo, guard, checker>>

UsersCellStep == CsvStep("toCsv", toCsvCell(calc.in))

PanelCellStep == CsvStep("onExportCSV", onExportCSVCell(calc.in))

NextCsv == UsersCellStep \/ PanelCellStep

SpecCsv == InitCsv /\ [][NextCsv]_vars

\* The inspections panel alone: the route shows the inspections page, the
\* users table is not in the tree.
TableAbsent ==
    /\ rows = <<>>
    /\ loading = TRUE
    /\ error = NoError
    /\ query = <<>>
    /\ sortKey = "createdAt"
    /\ sortDir = "desc"
    /\ page = 1
    /\ pageSize = PAGE_SIZE_DEFAULT
    /\ refreshing = FALSE
    /\ activeTab = "all"
    /\ loads = {}
    /\ issued = 0
    /\ latest = <<>>
    /\ maxOk = 0
    /\ muts = <<>>
    /\ crashed = FALSE
    /\ last = [op |-> "none", arg |-> 0, pageBefore |-> 0, outcome |-> "none"]
    /\ mounted = FALSE

InitPanel ==
    /\ TableAbsent
    /\ panel = PanelInit
    /\ calc = CalcIdle
    /\ InitRest

PanelStep ==
    \/ fetchAll
    \/ \E g \in Grades : setGrade(g)
    \/ \E f \in PanelSortFields : setSortBy(f)
    \/ \E o \in Orders : setOrder(o)
    \/ PanelPrevious
    \/ PanelNext
    \/ \E req \in panel.reqs, outcome \in PanelOutcomes : fetchAllSettles(req, outcome)
    \/ onExportCSV

NextPanel == PanelStep

SpecPanel == InitPanel /\ [][NextPanel]_vars

\* The two screens, one at a time: the users table with its list requests,
\* its view parameters and its export, or the inspections panel.
InitScreens == Init \/ InitPanel

NextScreens == ViewStep \/ FilterPageStep \/ LoadStep \/ exportCsv \/ PanelStep

SpecScreens == InitScreens /\ [][NextScreens]_vars

\* The route guard alone: the application is opened on the route "/", Clerk
\* has not loaded yet, MainLayout has rendered nothing and its effect has
\* returned at once.
GuardInit ==
    [GuardAbsent EXCEPT !.mounted = TRUE, !.pathname = "/",
                        !.last = [op |-> "mount", called |-> FALSE, navigated |-> FALSE]]

InitGuard ==
    /\ TableAbsent
    /\ panel = PanelAbsent
    /\ calc = CalcIdle
    /\ memo = MemoRendered
    /\ guard = GuardInit
    /\ checker = CheckerAbsent

NextGuard ==
    \/ \E path \in ProtectedPaths : GuardMount(path)
    \/ \E path \in ProtectedPaths : LocationChanges(path)
    \/ \E id \in Identities : ClerkChanges(id)
    \/ \E call \in guard.pending, outcome \in SignOutOutcomes : signOutSettles(call, outcome)

SpecGuard == InitGuard /\ [][NextGuard]_vars

\* The superadmin checker alone, after its first render: nothing is loading,
\* no result and no error; the user is signed in or not.
InitChecker ==
    /\ TableAbsent
    /\ panel = PanelAbsent
    /\ calc = CalcIdle
    /\ memo = MemoRendered
    /\ guard = GuardAbsent
    /\ checker \in {[CheckerAbsent EXCEPT !.mounted = TRUE, !.isSignedIn = b,
                                           !.last.op = "mount"] : b \in BOOLEAN}

NextChecker ==
    \/ checkSuperadminStatus
    \/ testMultipleEndpoints
    \/ \E outcome \in TokenOutcomes : getTokenSettles(outcome)
    \/ \E resp \in CheckerResponses : fetchSettles(resp)
    \/ SessionChanges

SpecChecker == InitChecker /\ [][NextChecker]_vars

\* ------------------------------------------------------------------- claims
PageInRange == page \in 1..pageCount

\* C1: over a loaded collection that stays as it is, after every sequence of
\* query, tab, page-size, sort and page-navigation steps the page is within
\* [1, max(1, ceil(F / pageSize))], F the number of records that pass the
\* tab and the query.
C1_PageBoundsOnFixedItems == PageInRange

C1_Witness ==
    /\ last.op = "nextPage"
    /\ activeTab = "inactive"
    /\ sortKey = "firstName"
    /\ pageSize = 1
    /\ page = 2
    /\ pageCount = 2

\* C2: the page is within [1, max(1, ceil(F / pageSize))] in every state the
\* table renders, also after a response or a row action has changed F.
C2_PageAlwaysInRange == ~crashed => PageInRange

\* C3: right after onToggleActive the record, in rows and in the rendered
\* page, has the negated flag; right after the PATCH of a toggle has
\* rejected, the record has the flag rows held for it before the toggle.
C3_OptimisticThenRollback ==
    /\ last.op = "toggle" =>
           LET m == muts[last.arg]
           IN  /\ RowsWithId(rows, m.id) # {}
               /\ \A r \in RowsWithId(rows, m.id) :
                      r.isActive = Bool(~Truthy(m.pre.isActive))
               /\ \A r \in RowsWithId(paged, m.id) :
                      r.isActive = Bool(~Truthy(m.pre.isActive))
    /\ (last.op = "patchSettles" /\ muts[last.arg].kind = "toggle"
            /\ muts[last.arg].status = "failed") =>
           LET m == muts[last.arg]
           IN  /\ \A r \in RowsWithId(rows, m.id) : r.isActive = m.pre.isActive
               /\ \A r \in RowsWithId(paged, m.id) : r.isActive = m.pre.isActive

C3_Witness ==
    /\ last.op = "patchSettles"
    /\ Len(muts) = 1
    /\ muts[1].kind = "toggle"
    /\ muts[1].status = "failed"
    /\ muts[1].pre.isActive = Bool(FALSE)
    /\ RowsWithId(paged, muts[1].id) # {}
    /\ \A r \in RowsWithId(rows, muts[1].id) : r.isActive = Bool(FALSE)

\* C4: with no row action taken, rows is the collection brought by the
\* latest-issued request among those answered with one: the response of a
\* request issued before it never overwrites it.
C4_LatestIssuedWins == rows = latest

\* C5: every step that changes the query, the tab or the page size ends on
\* page 1.
C5_FilterChangeResetsPage ==
    [][(query' # query \/ activeTab' # activeTab \/ pageSize' # pageSize) => page' = 1]_vars

C5_Witness ==
    /\ last.op \in {"setQuery", "setActiveTab", "setPageSize"}
    /\ last.pageBefore > 1
    /\ page = 1

\* C6: no record id has two PATCH requests in flight.
InFlight(id) == {m \in 1..Len(muts) : muts[m].id = id /\ muts[m].status = "inflight"}

C6_OneMutationInFlightPerId == \A id \in Ids : Cardinality(InFlight(id)) <= 1

\* C7: once two toggles of one record, called one after the other, have both
\* failed, the record has the flag it had before the first toggle.
C7_BothFailedRestoresOriginal ==
    (/\ last.op = "patchSettles"
     /\ Len(muts) = 2
     /\ muts[1].id = muts[2].id
     /\ muts[1].kind = "toggle" /\ muts[2].kind = "toggle"
     /\ muts[1].status = "failed" /\ muts[2].status = "failed")
    => \A r \in RowsWithId(rows, muts[1].id) : r.isActive = muts[1].pre.isActive

\* C8: a list request that ends in a network failure, a non-success status
\* or a malformed body (one that does not parse, or one that parses to
\* something that is no list) sets the error message and leaves rows as
\* they were.
FailedLoadOutcomes == {"network", "status", "unparseable", "object"}

C8_FailedLoadKeepsItems ==
    [][\A req \in loads, outcome \in FailedLoadOutcomes, data \in Datasets :
           LoadSettles(req, outcome, data) => (error' # NoError /\ rows' = rows)]_vars

\* C9: right after a PATCH has failed, of whichever kind, the optimistic
\* change of its row action is undone: the flag of a toggle is the one the
\* record had before, the monthly count of a reset is the number it was.
C9_EveryFailureRollsBack ==
    (last.op = "patchSettles" /\ last.outcome \in PatchFailures) =>
        LET m == muts[last.arg]
        IN  \A r \in RowsWithId(rows, m.id) :
                IF m.kind = "toggle"
                THEN r.isActive = m.pre.isActive
                ELSE r.monthlyInspectionCount = Coalesce(m.pre.monthlyInspectionCount, Num(0))

C9_Witness ==
    /\ last.op = "patchSettles"
    /\ last.outcome = "unparseable"
    /\ muts[last.arg].kind = "reset"
    /\ muts[last.arg].pre.monthlyInspectionCount = Num(2)
    /\ \E r \in RowsWithId(rows, muts[last.arg].id) : r.monthlyInspectionCount = Num(2)

\* C10: the promise of a row action whose PATCH failed is rejected.
C10_FailureIsRejected ==
    \A m \in 1..Len(muts) : muts[m].status = "failed" => muts[m].outcome = "rejected"

\* C11: right after the PATCH of a reset has failed, the reset being the only
\* row action called so far, both fields the reset changed
\* (monthlyInspectionCount and lastResetDate) have the values the record had
\* before the reset.
C11_FailedResetRestoresEveryField ==
    (/\ last.op = "patchSettles"
     /\ last.outcome \in PatchFailures
     /\ Len(muts) = 1
     /\ muts[1].kind = "reset")
    => \A r \in RowsWithId(rows, muts[1].id) :
           /\ r.monthlyInspectionCount = muts[1].pre.monthlyInspectionCount
           /\ r.lastResetDate = muts[1].pre.lastResetDate

\* C12: right after a row action was called (its PATCH still in flight), rows
\* holds the record as it was before the call with every field of the action
\* applied: the negated flag for a toggle; the count 0 and the new reset date,
\* both, for a reset.
C12_OptimisticAppliedWhole ==
    last.op \in {"toggle", "reset"} =>
        LET m == muts[last.arg]
        IN  /\ m.status = "inflight"
            /\ RowsWithId(rows, m.id) # {}
            /\ \A r \in RowsWithId(rows, m.id) :
                   r = (IF m.kind = "toggle"
                        THEN [m.pre EXCEPT !.isActive = Bool(~Truthy(m.pre.isActive))]
                        ELSE [m.pre EXCEPT !.monthlyInspectionCount = Num(0),
                                           !.lastResetDate = Str(NowIso)])

C12_Witness ==
    /\ last.op = "reset"
    /\ muts[last.arg].status = "inflight"
    /\ muts[last.arg].pre.monthlyInspectionCount = Num(2)
    /\ muts[last.arg].pre.lastResetDate = NULL
    /\ \E r \in RowsWithId(rows, muts[last.arg].id) :
           r.monthlyInspectionCount = Num(0) /\ r.lastResetDate = Str(NowIso)

\* C13: right after a PATCH has succeeded, the record of rows with the id of
\* the row action is the record the response carried.
C13_SuccessReconcilesWithReturnedRecord ==
    (last.op = "patchSettles" /\ last.outcome = "ok") =>
        \A r \in RowsWithId(rows, muts[last.arg].id) : r = last.returned

\* C15: a step of a row action on one id (the optimistic change, the success,
\* the rollback) leaves every record of rows with another id as it was,
\* whatever row actions on other ids are in flight.
C15_OtherRecordsUntouched ==
    [][last'.op \in {"toggle", "reset", "patchSettles"} =>
           /\ Len(rows') = Len(rows)
           /\ \A i \in 1..Len(rows) :
                  rows[i].id # muts'[last'.arg].id => rows'[i] = rows[i]]_vars

C15_Witness ==
    /\ last.op = "patchSettles"
    /\ last.arg = 1
    /\ Len(muts) = 2
    /\ muts[1].id # muts[2].id
    /\ muts[1].status = "failed"
    /\ muts[2].status = "inflight"
    /\ muts[2].kind = "reset"
    /\ \E r \in RowsWithId(rows, muts[2].id) : r.lastResetDate = Str(NowIso)
    /\ \E r \in RowsWithId(rows, muts[1].id) : r = muts[1].pre

C18_NullsLastBothDirections ==
    /\ \A i, j \in 1..Len(filtered) :
           (i < j /\ IsNullish(filtered[i][sortKey])) => IsNullish(filtered[j][sortKey])
    /\ (/\ rows = <<U1, U2, U3>>
        /\ activeTab = "all"
        /\ trim(query) = <<>>
        /\ sortKey = "firstName"
        /\ sortDir = "asc")
       => [i \in 1..Len(filtered) |-> filtered[i].id] = <<"u3", "u1", "u2">>

C18_Witness ==
    /\ last.op = "toggleSort"
    /\ sortKey = "firstName"
    /\ sortDir = "desc"
    /\ activeTab = "all"
    /\ [i \in 1..Len(filtered) |-> filtered[i].id] = <<"u1", "u3", "u2">>

\* C20 as stated: every visible row passes the tab and has the query, as it
\* was typed and without regard to case, as a substring of a searchable
\* field.
C20_VisibleRowsMatchTypedQuery ==
    \A i \in 1..Len(paged) :
        PassesTab(paged[i], activeTab) /\ MatchesQuery(paged[i], toLowerCase(query))

\* Whether a record belongs to the view: it passes the tab and, unless the
\* query is blank, has the query without its leading and trailing blanks as a
\* substring of the email, the full name or the clerk id, case disregarded.
InView(r) ==
    /\ PassesTab(r, activeTab)
    /\ trim(query) = <<>> \/ MatchesQuery(r, toLowerCase(trim(query)))

\* C20, amended: the visible rows are the elements at the positions
\* [(page-1)*pageSize, page*pageSize) of the sorted sequence of the records
\* that pass the tab and match the query with its leading and trailing blanks
\* removed: at most pageSize rows, each in the view, every record in the view
\* in the sequence, in sorted order.
C20_VisibleRowsAreThePageSlice ==
    LET start == (page - 1) * pageSize
    IN  /\ Len(paged) = Min2(pageSize, Max2(0, Len(filtered) - start))
        /\ \A i \in 1..Len(paged) : paged[i] = filtered[start + i]
        /\ \A i \in 1..Len(filtered) : InView(filtered[i])
        /\ {filtered[i].id : i \in 1..Len(filtered)}
               = {rows[i].id : i \in {j \in 1..Len(rows) : InView(rows[j])}}
        /\ Len(filtered) = Cardinality({j \in 1..Len(rows) : InView(rows[j])})
        /\ \A i, j \in 1..Len(filtered) :
               i < j => Compare(filtered[i], filtered[j], sortKey, sortDir) <= 0

C20_Witness ==
    /\ last.op = "nextPage"
    /\ query = <<" ", "A">>
    /\ activeTab = "all"
    /\ pageSize = 1
    /\ page = 2
    /\ Len(filtered) = 2
    /\ Len(paged) = 1
    /\ paged[1] = filtered[2]

\* C19: in the cell either export writes for a value, every quote of the
\* value is doubled (halving each run of quotes of the cell, its enclosing
\* pair aside, gives the value back, and no run is odd), and a value that
\* contains a comma is enclosed in quotes; the value  He said "hi", once
\* is written as  "He said ""hi"", once".
RECURSIVE Undouble(_)
Undouble(s) ==
    IF s = <<>> THEN <<>>
    ELSE IF Head(s) = Quote /\ Len(s) >= 2 /\ s[2] = Quote
         THEN <<Quote>> \o Undouble(SubSeq(s, 3, Len(s)))
    ELSE <<Head(s)>> \o Undouble(Tail(s))

QuoteCount(s) == Cardinality({i \in 1..Len(s) : s[i] = Quote})

Enclosed(s) == Len(s) >= 2 /\ s[1] = Quote /\ s[Len(s)] = Quote

C19_QuotesDoubledSeparatorQuoted ==
    calc.fn # "none" =>
        LET wrapped == Len(calc.out) = Len(calc.in) + QuoteCount(calc.in) + 2
            inner == IF wrapped THEN SubSeq(calc.out, 2, Len(calc.out) - 1) ELSE calc.out
        IN  /\ wrapped => Enclosed(calc.out)
            /\ includes(calc.in, <<Comma>>) => wrapped
            /\ Len(inner) = Len(calc.in) + QuoteCount(calc.in)
            /\ QuoteCount(inner) = 2 * QuoteCount(calc.in)
            /\ Undouble(inner) = calc.in
            /\ calc.in = CsvExample => calc.out = CsvExampleOut

C19_Witness ==
    /\ calc.fn = "toCsv"
    /\ calc.in = CsvExample
    /\ calc.out = CsvExampleOut

\* The view parameters of the inspections panel.
PanelViewOf(p) == <<p.page, p.grade, p.sortBy, p.order>>

\* C16 as stated: no step that changes a view parameter (query, sort key, sort
\* direction, filter, page size, page) of either component issues a request.
C16_ViewChangesIssueNoRequest ==
    [][(viewVars' # viewVars \/ PanelViewOf(panel') # PanelViewOf(panel)) =>
           /\ issued' = issued
           /\ Len(muts') = Len(muts)
           /\ panel'.issued = panel.issued]_vars

\* C16, amended: in the users table a step that changes the query, the sort
\* key, the sort direction, the tab, the page size or the page issues no
\* request (no list request, no PATCH); in the inspections panel, whose list
\* is filtered, sorted and paged by the server, every step that changes the
\* page, the sort field, the order or a filter issues a list request that
\* carries the new sort and filter.
C16_TableViewIsLocalPanelViewLoads ==
    [][/\ viewVars' # viewVars =>
              /\ issued' = issued
              /\ loads' = loads
              /\ muts' = muts
       /\ PanelViewOf(panel') # PanelViewOf(panel) =>
              /\ panel'.issued > panel.issued
              /\ \E req \in panel'.reqs \ panel.reqs :
                     /\ req.grade = panel'.grade
                     /\ req.sortBy = panel'.sortBy
                     /\ req.order = panel'.order]_vars

C16_Witness ==
    /\ mounted
    /\ last.op = "lastPage"
    /\ sortKey = "firstName"
    /\ query = <<" ", "A">>
    /\ pageSize = 1
    /\ page = 2
    /\ issued = 1
    /\ loads = {}
    /\ muts = <<>>

\* The number of lines of a text.
LineCount(text) == 1 + Cardinality({i \in 1..Len(text) : text[i] = Newline})

\* C17 as stated: an export holds, under its header line, one line for every
\* record of the filtered set, whatever the page: in the users table the
\* records that pass the tab and the query, in the inspections panel the
\* total records that match the filters.
C17_ExportIsWholeFilteredSet ==
    /\ last.op = "exportCsv" =>
           LineCount(last.text) = 1 + Cardinality({j \in 1..Len(rows) : InView(rows[j])})
    /\ panel.last.op = "export" => LineCount(panel.last.text) = 1 + panel.total

\* C17, amended: the export of the users table is the text of the whole
\* filtered and sorted sequence, one line per record that passes the tab and
\* the query, whatever the page and the page size; the export of the
\* inspections panel is the text of the rows the panel holds, the page the
\* server answered with (at most pageSize records).
C17_TableExportsAllPanelExportsPage ==
    /\ last.op = "exportCsv" =>
           /\ last.text = toCsv(filteredOf(rows, activeTab, query, sortKey, sortDir))
           /\ LineCount(last.text) = 1 + Cardinality({j \in 1..Len(rows) : InView(rows[j])})
    /\ panel.last.op = "export" =>
           /\ panel.last.text = PanelCsv(panel.rows)
           /\ LineCount(panel.last.text) = 1 + Len(panel.rows)
           /\ Len(panel.rows) <= PanelPageSize

C17_Witness ==
    /\ last.op = "exportCsv"
    /\ pageSize = 1
    /\ page = 2
    /\ pageCount = 3
    /\ Len(paged) = 1
    /\ LineCount(last.text) = 4

C22_SortLeavesItemsUnchanged ==
    [][last'.op \in {"toggleSort", "render"} => rows' = rows]_vars

\* The table was rendered after a change of the sort, under the tab "all" with
\* an empty query, and the rows it shows are in another order than items.
C22_Witness ==
    /\ last.op = "render"
    /\ ~last.again
    /\ activeTab = "all"
    /\ query = <<>>
    /\ sortKey = "firstName"
    /\ Len(rows) = 3
    /\ Len(last.out) = 3
    /\ last.out # rows

\* C23: after a failed load, a later load that succeeds replaces items with
\* the fetched collection and clears the load error. In the users table the
\* loads made after the first one are those of refresh; in the inspections
\* panel a later load is a call of fetchAll made after a call has failed.
C23_LaterLoadReplacesItemsAndClearsError ==
    [][/\ \A req \in loads, outcome \in {"list", "null"}, data \in Datasets :
              (req.src = "refresh" /\ LoadSettles(req, outcome, data)) =>
                  (rows' = RowsOfBody(outcome, data) /\ error' = NoError)
       /\ \A req \in panel.reqs :
              (/\ panel.failedAt > 0
               /\ req.seq > panel.failedAt
               /\ fetchAllSettles(req, "ok")) =>
                  /\ panel'.rows = AdminAllResponse(req).inspections
                  /\ panel'.total = AdminAllResponse(req).total
                  /\ panel'.error = NoError]_vars

\* C24: the protected layout renders the application content (sidebar and
\* routed page) only in states where the identity state is loaded, the user
\* is signed in and the appRole is exactly superadmin; in every other state
\* it renders nothing.
C24_ContentOnlyForSuperadmin ==
    guard.shown = "content" =>
        (guard.mounted /\ guard.isLoaded /\ guard.isSignedIn /\ guard.role = "superadmin")

\* A superadmin is shown the content on a protected route reached by a link.
C24_Witness ==
    /\ guard.mounted
    /\ guard.shown = "content"
    /\ guard.last.op = "location"
    /\ guard.pathname = "/users"

\* C25: when the identity state is loaded and the user is signed in with a
\* role other than superadmin, the effect of the render calls signOut; the
\* step in which a call of signOut settles, fulfilled or rejected, navigates
\* to /sign-in; and no step navigates for a signed-in user but the settling
\* of a call of signOut.
C25_SignOutSettlesThenNavigate ==
    /\ (/\ guard.mounted
        /\ guard.last.op \in {"mount", "location", "clerk"}
        /\ CallsSignOut(GuardIdentity)) =>
           (guard.last.called /\ \E call \in guard.pending : call.seq = guard.calls)
    /\ guard.last.op = "signOutSettles" =>
           (guard.last.navigated /\ guard.pathname = "/sign-in" /\ ~guard.mounted)
    /\ guard.last.navigated =>
           (guard.last.op = "signOutSettles" \/ (guard.isLoaded /\ ~guard.isSignedIn))

\* A call of signOut made for a user of another role was rejected, and the
\* guard has navigated to /sign-in with the user still signed in.
C25_Witness ==
    /\ guard.last.op = "signOutSettles"
    /\ guard.last.navigated
    /\ guard.isSignedIn
    /\ guard.role = "admin"
    /\ guard.calls = 1
    /\ guard.pending = {}
    /\ guard.pathname = "/sign-in"

\* C26: in the inspections panel, after a filter was changed while page > 1
\* and every request issued has settled successfully, in any completion
\* order, the displayed rows and total are those of the request made with
\* page = 1 and the current filters.
C26_FilterChangeShowsFirstPage ==
    (/\ panel.mounted
     /\ panel.change.op = "setGrade"
     /\ panel.change.pageBefore > 1
     /\ panel.reqs = {}
     /\ panel.failedAt = 0) =>
        LET first == AdminAllResponse(buildQuery(0, 1, panel.grade, panel.sortBy, panel.order))
        IN  /\ panel.rows = first.inspections
            /\ panel.total = first.total

\* C27: in the inspections panel, loading is true in every state in which at
\* least one call of fetchAll is in flight.
C27_LoadingWhileInFlight ==
    (panel.mounted /\ panel.reqs # {}) => panel.loading

\* C28: in the users table, once the PATCH of a row action has succeeded and
\* every request in flight has settled, the record shows the mutated value,
\* also when the response of a list request arrives after the optimistic
\* change. Stated for the states a successful PATCH leaves, the row action
\* being the only one called on its record: every list response has arrived
\* by then.
C28_SucceededMutateShowsItsValue ==
    (/\ last.op = "patchSettles"
     /\ last.outcome = "ok"
     /\ loads = {}
     /\ \A k \in 1..Len(muts) : muts[k].status # "inflight"
     /\ {k \in 1..Len(muts) : muts[k].id = muts[last.arg].id} = {last.arg}) =>
        LET m == muts[last.arg]
        IN  \A r \in RowsWithId(rows, m.id) :
                IF m.kind = "toggle"
                THEN r.isActive = NextActive(m.row)
                ELSE r.monthlyInspectionCount = Num(0)

\* The paths checkSuperadminStatus ends on: not signed in, no token,
\* getToken rejecting, a body that is no JSON, a success status, 403,
\* another status, fetch rejecting.
CheckPaths ==
    {"notSignedIn", "noToken", "tokenRejected", "nonJson", "ok", "forbidden", "other",
     "transport"}

\* C29: when checkSuperadminStatus completes, on whichever path, loading is
\* false and exactly one of result and error is set.
C29_CheckEndsWithResultOrError ==
    checker.last.completed = "check" =>
        /\ checker.last.path \in CheckPaths
        /\ ~checker.loading
        /\ (checker.result # NULL) # (checker.error # NULL)

\* The check ended on a 403 whose body names the reason: the result says so,
\* and no error is set.
C29_Witness ==
    /\ checker.last.completed = "check"
    /\ checker.last.path = "forbidden"
    /\ checker.result # NULL
    /\ checker.result.error = "Superadmin only"
    /\ checker.error = NULL
    /\ ~checker.loading

\* C30: the checker sends no request unless a session token was obtained: a
\* step calls fetch only when getToken has given a token, and when getToken
\* gives none authFetch throws and no request is in flight, in
\* checkSuperadminStatus (the error is set) and in testMultipleEndpoints (the
\* item of the endpoint carries the error) alike.
C30_NoFetchWithoutToken ==
    /\ checker.last.fetched =>
           (checker.last.op = "getTokenSettles" /\ checker.last.outcome = "token")
    /\ (checker.last.op = "getTokenSettles" /\ checker.last.outcome # "token") =>
           /\ ~checker.last.fetched
           /\ checker.run.phase # "fetch"
           /\ checker.last.thrown = TokenErrorMessage(checker.last.outcome)
           /\ \/ checker.error = CaughtError(checker.last.thrown)
              \/ \E i \in 1..Len(checker.run.results) :
                     checker.run.results[i].error = checker.last.thrown
              \/ /\ checker.result # NULL
                 /\ checker.result.t = "multi"
                 /\ checker.result.results[Len(Endpoints)].error = checker.last.thrown

\* testMultipleEndpoints got a token for its first endpoint and none for its
\* second: one request was sent, the second item carries the error.
C30_Witness ==
    /\ checker.last.op = "getTokenSettles"
    /\ checker.last.outcome = "null"
    /\ checker.last.completed = "multi"
    /\ checker.result.t = "multi"
    /\ checker.result.results[1].isSuperadmin
    /\ checker.result.results[2].error = "No session token. Are you signed in?"

====
